---- MODULE Spec2Model ----
(***************************************************************************)
(* Model of mediasync.py (jgalar/mediasync): the category rule             *)
(* (MediaCategory.belongs), the path mapping and copy (CopyCommand), the   *)
(* SQLite ledger (openDB, the find and insert queries, the single final    *)
(* commit) and the main walk / classify / copy / record loop.              *)
(*                                                                         *)
(* Strings are sequences of one-character strings.  A Python optional      *)
(* value is a set with at most one element ({} is None).                   *)
(***************************************************************************)
EXTENDS Integers, Sequences, FiniteSets, TLC

\* ------------------------------------------------------------ bounds
MaxRuns == 3          \* invocations of the script in one behaviour
MaxFailures == 2      \* I/O and database failures injected in one behaviour

\* ------------------------------------------------------------ strings
NL == "\n"

\* Case folding of re.IGNORECASE over the model's alphabet.
Lower(c) == IF c = "M" THEN "m" ELSE IF c = "B" THEN "b" ELSE c

\* pat occurs in s at (1-based) position i, literally.
MatchAt(pat, s, i) ==
    /\ i + Len(pat) - 1 <= Len(s)
    /\ \A k \in 1..Len(pat) : s[i + k - 1] = pat[k]

\* re.search( re.escape(pat), s ) is not None
search(pat, s) == \E i \in 1..(Len(s) + 1) : MatchAt(pat, s, i)

\* regex.search( s ) is not None, for a compiled pattern made of literal
\* characters and ".", which matches any character but a newline.
regexSearch(pat, s) ==
    \E i \in 1..(Len(s) + 1) :
        /\ i + Len(pat) - 1 <= Len(s)
        /\ \A k \in 1..Len(pat) :
               \/ pat[k] = s[i + k - 1]
               \/ pat[k] = "." /\ s[i + k - 1] # NL

\* re.compile( pattern ) returns: the pattern has no group that is left open.
compiles(pat) == \A k \in 1..Len(pat) : pat[k] # "("

\* re.search( re.escape(extension) + "$", path, re.IGNORECASE ) is not None.
\* "$" matches at the end of the string and also just before a newline that
\* is the last character of the string.
searchExtension(extension, path) ==
    \E i \in 1..(Len(path) + 1) :
        /\ i + Len(extension) - 1 <= Len(path)
        /\ \A k \in 1..Len(extension) : Lower(path[i + k - 1]) = Lower(extension[k])
        /\ \/ i + Len(extension) - 1 = Len(path)
           \/ /\ i + Len(extension) - 1 = Len(path) - 1
              /\ path[Len(path)] = NL

\* str.replace( old, new ): every non-overlapping occurrence, left to right.
RECURSIVE replaceFrom(_, _, _, _)
replaceFrom(s, old, new, i) ==
    IF i > Len(s) THEN (IF old = <<>> THEN new ELSE <<>>)
    ELSE IF old = <<>> THEN new \o <<s[i]>> \o replaceFrom(s, old, new, i + 1)
    ELSE IF MatchAt(old, s, i) THEN new \o replaceFrom(s, old, new, i + Len(old))
    ELSE <<s[i]>> \o replaceFrom(s, old, new, i + 1)

replace(s, old, new) == replaceFrom(s, old, new, 1)

\* str.split( sep ) for a one-character separator.
RECURSIVE splitFrom(_, _, _, _)
splitFrom(s, sep, i, acc) ==
    IF i > Len(s) THEN <<acc>>
    ELSE IF s[i] = sep THEN <<acc>> \o splitFrom(s, sep, i + 1, <<>>)
    ELSE splitFrom(s, sep, i + 1, Append(acc, s[i]))

split(s, sep) == splitFrom(s, sep, 1, <<>>)

\* str.rfind( ch ): 0-based index of the last occurrence, -1 when there is none.
rfind(s, ch) ==
    LET hits == {i \in 1..Len(s) : s[i] = ch}
    IN  IF hits = {} THEN -1 ELSE (CHOOSE i \in hits : \A j \in hits : j <= i) - 1

\* s[:k] of Python, k >= -1.
sliceTo(s, k) ==
    IF k >= 0 THEN SubSeq(s, 1, k)
    ELSE IF Len(s) = 0 THEN <<>> ELSE SubSeq(s, 1, Len(s) + k)

\* os.path.join( a, b ) for a relative b.
join(a, b) ==
    IF a = <<>> THEN b
    ELSE IF a[Len(a)] = "/" THEN a \o b
    ELSE a \o <<"/">> \o b

\* The directories os.makedirs( folder ) leaves in place: folder and its ancestors.
dirsOf(folder) ==
    {SubSeq(folder, 1, i - 1) : i \in {j \in 2..Len(folder) : folder[j] = "/"}}
        \cup (IF folder = <<>> THEN {} ELSE {folder})

\* ------------------------------------------------------------ CopyCommand
\* CopyCommand.__init__: the assertion on sourceRoot.
CopyCommandAccepts(sourceRoot, sourcePath) == search(sourceRoot, sourcePath)

\* CopyCommand.__init__: the destination path.
destinationPath(sourceRoot, destinationRoot, sourcePath) ==
    destinationRoot \o replace(sourcePath, sourceRoot, <<>>)

\* CopyCommand.run: the folder that is checked and created.
destinationFolder(destPath) == sliceTo(destPath, rfind(destPath, "/"))

\* ------------------------------------------------------------ MediaCategory
\* MediaCategory.belongs.  extensions is the module-level variable of that
\* name, which the first line of the method reads (not self.extensions).
belongs(self, path, extensions) ==
    LET extensionFound ==
            \/ extensions = {}
            \/ \E k \in 1..Len(self.extensions) :
                   searchExtension(self.extensions[k], path)
    IN  IF ~extensionFound THEN FALSE
        ELSE IF self.exclusionRegex # {}
             THEN \A pat \in self.exclusionRegex : ~regexSearch(pat, path)
             ELSE TRUE

\* ------------------------------------------------------------ configuration
media_database == <<"m","e","d","i","a","_","d","a","t","a","b","a","s","e">>
media_sources == <<"m","e","d","i","a","_","s","o","u","r","c","e","s">>

\* A category section of ~/.mediasync; an option that is absent is {}.
Section(name, extensions, destination, exclude) ==
    [name |-> name, extensions |-> extensions,
     destination |-> destination, exclude |-> exclude]

GlobalSection(name) == Section(name, {}, {}, {})

\* reservedSectionNameRE = re.compile( r'^media', re.IGNORECASE )
isReserved(section) ==
    /\ Len(section) >= 5
    /\ \A k \in 1..5 : Lower(section[k]) = <<"m","e","d","i","a">>[k]

\* One pass of the "Init categories" loop body for a section that is kept.
MediaCategory(section) ==
    [name |-> section.name,
     extensions |-> IF section.extensions # {}
                    THEN split(CHOOSE e \in section.extensions : TRUE, ",")
                    ELSE <<>>,
     destination |-> CHOOSE d \in section.destination : TRUE,
     exclusionRegex |-> section.exclude]

\* The "Init categories" loop ends the script: a section that is not skipped
\* has no destination option (lines 166-170), or its exclude option does not
\* compile (line 173, re.error, uncaught).
configurationError(sections) ==
    \E k \in 1..Len(sections) :
        /\ ~isReserved(sections[k].name)
        /\ \/ sections[k].destination = {}
           \/ \E pat \in sections[k].exclude : ~compiles(pat)

\* The "Init categories" loop: mediaCategories after it.
RECURSIVE initCategories(_)
initCategories(sections) ==
    IF sections = <<>> THEN <<>>
    ELSE IF isReserved(Head(sections).name) THEN initCategories(Tail(sections))
    ELSE <<MediaCategory(Head(sections))>> \o initCategories(Tail(sections))

\* The module-level variable extensions once the loop has ended: the list of
\* the last section that was not skipped.  It is a list, never None.
globalExtensions(categories) ==
    IF categories = <<>> THEN {} ELSE {categories[Len(categories)].extensions}

\* The configurations and source trees of the model.  source_paths is the
\* option's text; files is the directory listing order of the tree.
Scenarios ==
    { \* two categories on one extension, the second with an exclusion
      \* pattern; the source root is listed twice
      [source_paths |-> <<"s", ",", "s">>,
       sections |-> << GlobalSection(media_database), GlobalSection(media_sources),
                       Section(<<"v">>, {<<"m">>}, {<<"d">>}, {}),
                       Section(<<"c">>, {<<"m">>}, {<<"e">>}, {<<"b">>}) >>,
       files |-> << <<"s","/","a",".","m">>, <<"s","/","b",".","M">> >>],
      \* overlapping roots, one with a trailing separator; a category without
      \* an extensions option, then one with extensions
      [source_paths |-> <<"s", "/", ",", "s", "/", "k">>,
       sections |-> << GlobalSection(media_database), GlobalSection(media_sources),
                       Section(<<"a">>, {}, {<<"d">>}, {}),
                       Section(<<"v">>, {<<"m">>}, {<<"e">>}, {}) >>,
       files |-> << <<"s","/","k","/","a",".","m">>, <<"s","/","b">> >>],
      \* a single category without an extensions option
      [source_paths |-> <<"s">>,
       sections |-> << GlobalSection(media_database), GlobalSection(media_sources),
                       Section(<<"a">>, {}, {<<"d">>}, {<<"b">>}) >>,
       files |-> << <<"s","/","a">>, <<"s","/","b">> >>],
      \* a file name that ends in a newline; an exclusion pattern that matches
      \* one spelling of the extension
      [source_paths |-> <<"s">>,
       sections |-> << GlobalSection(media_database), GlobalSection(media_sources),
                       Section(<<"v">>, {<<"m">>}, {<<"d">>}, {<<".", "M">>}) >>,
       files |-> << <<"s","/","a",".","m">>, <<"s","/","a",".","M">>,
                    <<"s","/","b",".","m",NL>> >>],
      \* a destination inside the source root, where a file of the same
      \* relative path already is
      [source_paths |-> <<"s">>,
       sections |-> << GlobalSection(media_database), GlobalSection(media_sources),
                       Section(<<"v">>, {<<"m">>}, {<<"s","/","k">>}, {}) >>,
       files |-> << <<"s","/","a",".","m">>, <<"s","/","k","/","a",".","m">> >>],
      \* two files whose paths differ by an occurrence of the source root's text
      [source_paths |-> <<"s">>,
       sections |-> << GlobalSection(media_database), GlobalSection(media_sources),
                       Section(<<"v">>, {<<"m">>}, {<<"d">>}, {}) >>,
       files |-> << <<"s","/","a",".","m">>, <<"s","/","s","a",".","m">> >>],
      \* a category without a destination option
      [source_paths |-> <<"s">>,
       sections |-> << GlobalSection(media_database), GlobalSection(media_sources),
                       Section(<<"v">>, {<<"m">>}, {}, {}) >>,
       files |-> << <<"s","/","a",".","m">> >>],
      \* a category whose exclude option is not a regular expression
      [source_paths |-> <<"s">>,
       sections |-> << GlobalSection(media_database), GlobalSection(media_sources),
                       Section(<<"v">>, {<<"m">>}, {<<"d">>}, {<<"(">>}) >>,
       files |-> << <<"s","/","a",".","m">> >>],
      \* a category whose name begins like the names of the global sections
      [source_paths |-> <<"s">>,
       sections |-> << GlobalSection(media_database), GlobalSection(media_sources),
                       Section(<<"M","e","d","i","a","_","v">>, {<<"m">>}, {<<"d">>}, {}) >>,
       files |-> << <<"s","/","a",".","m">> >>] }

\* ------------------------------------------------------------ state
VARIABLES
    cfg,            \* the configuration file and the source tree's listing order
    database,       \* MediaSourceFiles: the committed rows, in insertion order
    dbCreated,      \* the database file and its table exist
    transaction,    \* rows inserted through the open connection, not committed
    fs,             \* the file system: file path -> content
    listing,        \* the files of fs in directory listing order
    dirs,           \* the directories that exist
    pc,             \* "idle", "loop", "done", "aborted" or "config error"
    sourceIndex,    \* position of mediaSourcePath in mediaSourcePaths
    pending,        \* the files os.walk has still to yield for mediaSourcePath
    mediaFilePath,  \* the file of the current iteration ({} between files)
    categoryIndex,  \* position of category in mediaCategories
    clock,          \* the time getTimeString() returns next
    failures,       \* the failures injected so far
    outcome,        \* how each finished run ended, oldest first
    hist            \* what each (file, category) iteration did, oldest first

vars == << cfg, database, dbCreated, transaction, fs, listing, dirs, pc,
           sourceIndex, pending, mediaFilePath, categoryIndex, clock,
           failures, outcome, hist >>

\* mediaSourcePaths = source_paths.split( "," )
mediaSourcePaths == split(cfg.source_paths, ",")

mediaCategories == initCategories(cfg.sections)

extensions == globalExtensions(mediaCategories)

mediaSourcePath == mediaSourcePaths[sourceIndex]

category == mediaCategories[categoryIndex]

currentFile == CHOOSE f \in mediaFilePath : TRUE

\* The number of the run in progress (or of the next one).
run == Len(outcome) + 1

\* A file's original data.
Original(path) == [of |-> path, whole |-> TRUE]

\* os.walk( root ) with os.path.join( root, file ): the files below root, each
\* named by root followed by its path relative to root.
walk(root, files) ==
    LET top == IF root # <<>> /\ root[Len(root)] = "/"
               THEN SubSeq(root, 1, Len(root) - 1) ELSE root
        below(p) == /\ root # <<>>
                    /\ Len(p) > Len(top) + 1
                    /\ MatchAt(top \o <<"/">>, p, 1)
        found == SelectSeq(files, below)
    IN  [i \in 1..Len(found) |->
            join(root, SubSeq(found[i], Len(top) + 2, Len(found[i])))]

\* SQLFindQuery with its two parameters bound to the wrong columns.
SQLFindQuery_SwappedColumns(rows, sourcePath, categoryName) ==
    \E i \in 1..Len(rows) :
        /\ rows[i].sourcePath = categoryName
        /\ rows[i].categoryName = sourcePath

\* SQLFindQuery without its categoryName condition.
SQLFindQuery_AnyCategory(rows, sourcePath, categoryName) ==
    \E i \in 1..Len(rows) : rows[i].sourcePath = sourcePath

\* SQLFindQueryTemplate on the open connection: committed rows and the rows of
\* the connection's own open transaction.
SQLFindQuery(rows, sourcePath, categoryName) ==
    \E i \in 1..Len(rows) :
        /\ rows[i].sourcePath = sourcePath
        /\ rows[i].categoryName = categoryName

\* A lookup that reads the committed rows only.
visibleRows_CommittedOnly == database

\* What the connection sees.
visibleRows == database \o transaction

\* A commit that writes nothing.
commit_Nothing(committed, uncommitted) == committed

\* A commit that leaves the table with the transaction's rows only.
commit_Replaces(committed, uncommitted) == uncommitted

\* database.commit()
commit(committed, uncommitted) == committed \o uncommitted

\* A connection that commits what is open when it is dropped.
rollback_Commits(committed, uncommitted) == committed \o uncommitted

\* The connection is dropped without a commit: SQLite rolls the open
\* transaction back.
rollback(committed, uncommitted) == committed

Init ==
    /\ cfg \in Scenarios
    /\ database = <<>>
    /\ dbCreated = FALSE
    /\ transaction = <<>>
    /\ fs = [p \in {cfg.files[i] : i \in 1..Len(cfg.files)} |-> Original(p)]
    /\ listing = cfg.files
    /\ dirs = UNION {dirsOf(destinationFolder(cfg.files[i])) : i \in 1..Len(cfg.files)}
    /\ pc = "idle"
    /\ sourceIndex = 1
    /\ pending = <<>>
    /\ mediaFilePath = {}
    /\ categoryIndex = 1
    /\ clock = 0
    /\ failures = 0
    /\ outcome = <<>>
    /\ hist = <<>>

\* ------------------------------------------------------------ the script
\* The process is gone: its variables are reset, its connection is dropped.
Exit(how) ==
    /\ pc' = how
    /\ outcome' = Append(outcome, how)
    /\ sourceIndex' = 1
    /\ pending' = <<>>
    /\ mediaFilePath' = {}
    /\ categoryIndex' = 1

\* Lines 109-180: the script starts, reads the configuration, opens the
\* database (line 148: openDB creates the file and the table when they are
\* absent), then builds mediaCategories (lines 150-175), where a configuration
\* error ends the script, and enters the loop over mediaSourcePaths.
Start ==
    /\ pc # "loop"
    /\ Len(outcome) < MaxRuns
    /\ IF Len(cfg.sections) - 2 = 0
       THEN /\ Exit("done")
            /\ UNCHANGED dbCreated
       ELSE /\ dbCreated' = TRUE
            /\ IF configurationError(cfg.sections)
               THEN Exit("config error")
               ELSE /\ pc' = "loop"
                    /\ sourceIndex' = 1
                    /\ pending' = walk(mediaSourcePaths[1], listing)
                    /\ mediaFilePath' = {}
                    /\ categoryIndex' = 1
                    /\ UNCHANGED outcome
    /\ UNCHANGED << cfg, database, transaction, fs, listing, dirs, clock,
                    failures, hist >>

\* NextFile passing over every other file os.walk yields.
NextFile_SkipsOne ==
    /\ pc = "loop"
    /\ mediaFilePath = {}
    /\ pending # <<>>
    /\ pending' = IF Len(pending) > 1 THEN Tail(Tail(pending)) ELSE <<>>
    /\ mediaFilePath' = IF mediaCategories = <<>> THEN {} ELSE {Head(pending)}
    /\ categoryIndex' = 1
    /\ UNCHANGED << cfg, database, dbCreated, transaction, fs, listing, dirs, pc,
                    sourceIndex, clock, failures, outcome, hist >>

\* Lines 180-182: os.walk yields the next file of mediaSourcePath.
NextFile ==
    /\ pc = "loop"
    /\ mediaFilePath = {}
    /\ pending # <<>>
    /\ pending' = Tail(pending)
    /\ mediaFilePath' = IF mediaCategories = <<>> THEN {} ELSE {Head(pending)}
    /\ categoryIndex' = 1
    /\ UNCHANGED << cfg, database, dbCreated, transaction, fs, listing, dirs, pc,
                    sourceIndex, clock, failures, outcome, hist >>

\* Line 179: the walk of mediaSourcePath is over, the next source path is walked.
NextSource ==
    /\ pc = "loop"
    /\ mediaFilePath = {}
    /\ pending = <<>>
    /\ sourceIndex < Len(mediaSourcePaths)
    /\ sourceIndex' = sourceIndex + 1
    /\ pending' = walk(mediaSourcePaths[sourceIndex + 1], listing)
    /\ UNCHANGED << cfg, database, dbCreated, transaction, fs, listing, dirs, pc,
                    mediaFilePath, categoryIndex, clock, failures, outcome, hist >>

\* Line 206: every source path has been walked; database.commit(); the script ends.
Commit ==
    /\ pc = "loop"
    /\ mediaFilePath = {}
    /\ pending = <<>>
    /\ sourceIndex = Len(mediaSourcePaths)
    /\ database' = commit(database, transaction)
    /\ transaction' = <<>>
    /\ Exit("done")
    /\ UNCHANGED << cfg, dbCreated, fs, listing, dirs, clock, failures, hist >>

\* ------------------------------------------------------------ one (file, category) iteration
AtPair == pc = "loop" /\ mediaFilePath # {}

\* The category loop left at its first iteration ("break" for "continue").
NextCategory_Break ==
    /\ categoryIndex' = 1
    /\ mediaFilePath' = {}

\* "continue", or the end of the loop body: the next category, or the next file.
NextCategory ==
    IF categoryIndex < Len(mediaCategories)
    THEN /\ categoryIndex' = categoryIndex + 1
         /\ UNCHANGED mediaFilePath
    ELSE /\ categoryIndex' = 1
         /\ mediaFilePath' = {}

Event(ev, dest) ==
    [run |-> run, sourcePath |-> currentFile, categoryName |-> category.name,
     destinationPath |-> dest, ev |-> ev]

\* Lines 186-189: the pair is in the database.
found == SQLFindQuery(visibleRows, currentFile, category.name)

\* copyCommand.destinationPath of line 197
copyDestination == destinationPath(mediaSourcePath, category.destination, currentFile)

\* Lines 186-195 passed: the pair is not in the database and belongs to the category.
ToCopy == AtPair /\ ~found /\ belongs(category, currentFile, extensions)

\* Line 197 constructs the CopyCommand without raising.
Constructed == ToCopy /\ CopyCommandAccepts(mediaSourcePath, currentFile)

\* Line 43: the destination folder has to be created.
needsMakedirs == destinationFolder(copyDestination) \notin dirs

\* os.makedirs cannot succeed: no folder name, or a file where a directory has to be.
makedirsImpossible ==
    \/ destinationFolder(copyDestination) = <<>>
    \/ \E d \in dirsOf(destinationFolder(copyDestination)) : d \in DOMAIN fs

\* shutil.copyfile cannot succeed: source and destination are the same file,
\* the destination is a directory, or the source is gone.
copyfileImpossible ==
    \/ copyDestination = currentFile
    \/ copyDestination \in dirs
    \/ currentFile \notin DOMAIN fs

\* Lines 41-48 passed: the destination folder exists.
FolderReady == Constructed /\ (needsMakedirs => ~makedirsImpossible)

\* The file system after copyCommand.run() returned True.
Copied ==
    /\ fs' = (copyDestination :> fs[currentFile]) @@ fs
    /\ listing' = IF copyDestination \in DOMAIN fs THEN listing
                  ELSE Append(listing, copyDestination)
    /\ dirs' = dirs \cup dirsOf(destinationFolder(copyDestination))

\* Lines 189-191: the pair is found in the database; continue.
SkipFound ==
    /\ AtPair
    /\ found
    /\ hist' = Append(hist, Event("found", <<>>))
    /\ NextCategory
    /\ UNCHANGED << cfg, database, dbCreated, transaction, fs, listing, dirs, pc,
                    sourceIndex, pending, clock, failures, outcome >>

\* Lines 193-195: the file does not belong to the category; continue.
SkipNotBelongs ==
    /\ AtPair
    /\ ~found
    /\ ~belongs(category, currentFile, extensions)
    /\ hist' = Append(hist, Event("rejected", <<>>))
    /\ NextCategory
    /\ UNCHANGED << cfg, database, dbCreated, transaction, fs, listing, dirs, pc,
                    sourceIndex, pending, clock, failures, outcome >>

\* MakedirsFails with run()'s result ignored: the INSERT follows the failure.
MakedirsFails_Records ==
    /\ Constructed
    /\ needsMakedirs
    /\ makedirsImpossible \/ failures < MaxFailures
    /\ failures' = IF makedirsImpossible THEN failures ELSE failures + 1
    /\ transaction' = Append(transaction,
                             [sourcePath |-> currentFile,
                              categoryName |-> category.name,
                              destinationPath |-> copyDestination,
                              processedTime |-> clock])
    /\ clock' = clock + 1
    /\ hist' = Append(hist, Event("makedirs failed", copyDestination))
    /\ NextCategory
    /\ UNCHANGED << cfg, database, dbCreated, fs, listing, dirs, pc,
                    sourceIndex, pending, outcome >>

\* Lines 43-48 and 198-199: os.makedirs raises OSError; run() returns False; continue.
MakedirsFails ==
    /\ Constructed
    /\ needsMakedirs
    /\ makedirsImpossible \/ failures < MaxFailures
    /\ failures' = IF makedirsImpossible THEN failures ELSE failures + 1
    /\ hist' = Append(hist, Event("makedirs failed", copyDestination))
    /\ NextCategory
    /\ UNCHANGED << cfg, database, dbCreated, transaction, fs, listing, dirs, pc,
                    sourceIndex, pending, clock, outcome >>

\* CopyfileFails with the IOError left uncaught: the script ends there.
CopyfileFails_Uncaught ==
    /\ FolderReady
    /\ copyfileImpossible \/ failures < MaxFailures
    /\ failures' = IF copyfileImpossible THEN failures ELSE failures + 1
    /\ dirs' = dirs \cup dirsOf(destinationFolder(copyDestination))
    /\ UNCHANGED << fs, listing >>
    /\ hist' = Append(hist, Event("copyfile failed", copyDestination))
    /\ database' = rollback(database, transaction)
    /\ transaction' = <<>>
    /\ Exit("aborted")
    /\ UNCHANGED << cfg, dbCreated, clock >>

\* Lines 51-55 and 198-199: shutil.copyfile raises IOError; run() returns False;
\* continue.  The destination is untouched or holds a part of the data.
CopyfileFails ==
    /\ FolderReady
    /\ copyfileImpossible \/ failures < MaxFailures
    /\ failures' = IF copyfileImpossible THEN failures ELSE failures + 1
    /\ dirs' = dirs \cup dirsOf(destinationFolder(copyDestination))
    /\ \/ UNCHANGED << fs, listing >>
       \/ /\ ~copyfileImpossible
          /\ fs' = (copyDestination :> [of |-> fs[currentFile].of, whole |-> FALSE]) @@ fs
          /\ listing' = IF copyDestination \in DOMAIN fs THEN listing
                        ELSE Append(listing, copyDestination)
    /\ hist' = Append(hist, Event("copyfile failed", copyDestination))
    /\ NextCategory
    /\ UNCHANGED << cfg, database, dbCreated, transaction, pc,
                    sourceIndex, pending, clock, outcome >>

\* Lines 198-204: the copy succeeds and the INSERT is executed.
Insert ==
    /\ FolderReady
    /\ ~copyfileImpossible
    /\ Copied
    /\ transaction' = Append(transaction,
                             [sourcePath |-> currentFile,
                              categoryName |-> category.name,
                              destinationPath |-> copyDestination,
                              processedTime |-> clock])
    /\ clock' = clock + 1
    /\ hist' = Append(hist, Event("recorded", copyDestination))
    /\ NextCategory
    /\ UNCHANGED << cfg, database, dbCreated, pc, sourceIndex, pending,
                    failures, outcome >>

\* An exception that nothing in the loop catches: the script ends with a
\* traceback, line 206 is not reached, and the open transaction is rolled back
\* when the connection is dropped.  Two statements of the loop body raise:
\*   line 197, CopyCommand's AssertionError (lines 26-30);
\*   line 204, the INSERT, after a copy that succeeded, when the database
\*   cannot be written.
Raises ==
    /\ ToCopy
    /\ \/ /\ ~CopyCommandAccepts(mediaSourcePath, currentFile)
          /\ hist' = Append(hist, Event("assertion failed", <<>>))
          /\ UNCHANGED << fs, listing, dirs, clock, failures >>
       \/ /\ FolderReady
          /\ ~copyfileImpossible
          /\ failures < MaxFailures
          /\ failures' = failures + 1
          /\ Copied
          /\ clock' = clock + 1
          /\ hist' = Append(hist, Event("insert failed", copyDestination))
    /\ database' = rollback(database, transaction)
    /\ transaction' = <<>>
    /\ Exit("aborted")
    /\ UNCHANGED << cfg, dbCreated >>

Next ==
    \/ Start
    \/ NextFile
    \/ NextSource
    \/ Commit
    \/ SkipFound
    \/ SkipNotBelongs
    \/ MakedirsFails
    \/ CopyfileFails
    \/ Insert
    \/ Raises

Spec == Init /\ [][Next]_vars

\* ------------------------------------------------------------ history
CopyFailed == {"makedirs failed", "copyfile failed"}
CopySucceeded == {"recorded", "insert failed"}
CopyAttempted == CopyFailed \cup CopySucceeded

SamePair(i, j) ==
    /\ hist[i].sourcePath = hist[j].sourcePath
    /\ hist[i].categoryName = hist[j].categoryName

\* Run r has ended, and ended as how.
Ended(r, how) == r <= Len(outcome) /\ outcome[r] = how

\* Every copy run r tried succeeded.
NoCopyFailed(r) == \A i \in DOMAIN hist : hist[i].run = r => hist[i].ev \notin CopyFailed

\* ------------------------------------------------------------ C1
\* C1 (as stated): each (source file, category) pair is copied at most once
\* over all runs: no two successful copies of one pair.
C1_CopiedAtMostOnce ==
    \A i, j \in DOMAIN hist :
        (hist[i].ev \in CopySucceeded /\ hist[j].ev \in CopySucceeded /\ SamePair(i, j))
            => i = j

\* C1 (amended): a pair is copied a second time only by a later run, and only
\* when the run that made the earlier copy ended without reaching its commit;
\* a pair is never copied twice in one run, and never again once the run that
\* copied it has committed.
C1_CopiedAgainOnlyAfterLostRun ==
    \A i, j \in DOMAIN hist :
        (i < j /\ hist[i].ev \in CopySucceeded /\ hist[j].ev \in CopySucceeded
               /\ SamePair(i, j))
            => (hist[i].run < hist[j].run /\ Ended(hist[i].run, "aborted"))

\* A pair copied and recorded by a run that committed is met again by a later
\* run, which finds it in the database.
C1_Witness ==
    \E i, j \in DOMAIN hist :
        /\ hist[i].ev = "recorded"
        /\ Ended(hist[i].run, "done")
        /\ hist[j].run > hist[i].run
        /\ SamePair(i, j)
        /\ hist[j].ev = "found"

\* ------------------------------------------------------------ C2
\* The pair of event i is one whose copy failed in run r.
CopyFailedIn(r, i) ==
    \E q \in DOMAIN hist :
        hist[q].run = r /\ SamePair(q, i) /\ hist[q].ev \in CopyFailed

\* The source tree is as it was at first: the same files below every source
\* path, each with its original data.
SourceTreeUnchanged ==
    /\ \A k \in 1..Len(mediaSourcePaths) :
           walk(mediaSourcePaths[k], listing) = walk(mediaSourcePaths[k], cfg.files)
    /\ \A k \in 1..Len(cfg.files) : fs[cfg.files[k]] = Original(cfg.files[k])

\* C2: idempotence.  Over an unchanged source tree, the run that follows a
\* run which committed copies and inserts nothing but the pairs whose copy
\* failed in that run.  So when
\* every copy of the first run succeeded, the second run copies nothing and
\* inserts nothing: each of its iterations ends at the database lookup or at
\* belongs, its transaction stays empty, and every row of the database is one
\* an earlier run recorded.
C2_Idempotent ==
    \A r \in 1..Len(outcome) :
        (Ended(r, "done") /\ SourceTreeUnchanged)
        => /\ \A i \in DOMAIN hist :
                  (hist[i].run = r + 1 /\ hist[i].ev \notin {"found", "rejected"})
                      => CopyFailedIn(r, i)
           /\ NoCopyFailed(r)
              => /\ \A i \in DOMAIN hist :
                        hist[i].run = r + 1 => hist[i].ev \in {"found", "rejected"}
                 /\ (run = r + 1 => transaction = <<>>)
                 /\ \A k \in 1..Len(visibleRows) :
                        \E i \in DOMAIN hist :
                            /\ hist[i].run <= r
                            /\ hist[i].ev = "recorded"
                            /\ hist[i].sourcePath = visibleRows[k].sourcePath
                            /\ hist[i].categoryName = visibleRows[k].categoryName

\* A run copied and recorded a pair and committed, every copy succeeding, and
\* the run after it has ended too.
C2_Witness ==
    \E r \in 1..Len(outcome) :
        /\ Ended(r, "done")
        /\ NoCopyFailed(r)
        /\ \E i \in DOMAIN hist : hist[i].run = r /\ hist[i].ev = "recorded"
        /\ Ended(r + 1, "done")
        /\ \E i \in DOMAIN hist : hist[i].run = r + 1 /\ hist[i].ev = "found"

\* ------------------------------------------------------------ C3
\* The pair of event i was left out of the database by its run: the run
\* did not both record it and commit.
LeftUnrecorded(i) ==
    ~ /\ Ended(hist[i].run, "done")
      /\ \E j \in DOMAIN hist :
             hist[j].run = hist[i].run /\ SamePair(i, j) /\ hist[j].ev = "recorded"

\* C3: a pair that a run accepted and left unrecorded (its copy failed, or its
\* copy succeeded and its INSERT failed, or the run did not commit) is
\* attempted again by the next run: the first time the next run meets the
\* pair it runs the copy, and a next run that reaches its end has met it.
C3_RetriedByNextRun ==
    \A i \in DOMAIN hist :
        (hist[i].ev \in CopyAttempted
            /\ hist[i].run <= Len(outcome) /\ LeftUnrecorded(i))
        => /\ \A j \in DOMAIN hist :
                  (hist[j].run = hist[i].run + 1 /\ SamePair(i, j)
                      /\ \A q \in DOMAIN hist :
                             (hist[q].run = hist[j].run /\ SamePair(i, q)) => j <= q)
                  => hist[j].ev \in CopyAttempted
           /\ Ended(hist[i].run + 1, "done")
                  => \E j \in DOMAIN hist :
                         /\ hist[j].run = hist[i].run + 1
                         /\ SamePair(i, j)
                         /\ hist[j].ev \in CopyAttempted

\* In one run the copy of a pair failed and the INSERT of another pair failed;
\* the next run has copied both again.
C3_Witness ==
    \E i, j, k, l \in DOMAIN hist :
        /\ hist[i].ev \in CopyFailed
        /\ hist[j].ev = "insert failed"
        /\ hist[i].run = hist[j].run
        /\ LeftUnrecorded(i)
        /\ hist[k].run = hist[i].run + 1 /\ SamePair(i, k) /\ hist[k].ev \in CopySucceeded
        /\ hist[l].run = hist[j].run + 1 /\ SamePair(j, l) /\ hist[l].ev \in CopySucceeded

\* ------------------------------------------------------------ C4
\* C4: a failure of the INSERT for one pair does not abort the run: the run
\* of a failed INSERT goes on and does not end aborted.
C4_InsertFailureDoesNotAbort ==
    \A i \in DOMAIN hist :
        hist[i].ev = "insert failed" => ~Ended(hist[i].run, "aborted")

\* ------------------------------------------------------------ C5
\* The position of a category name in mediaCategories.
IndexOf(name) == CHOOSE k \in 1..Len(mediaCategories) : mediaCategories[k].name = name

\* C5: when os.makedirs or shutil.copyfile fails for a pair, no row is written
\* for the pair (a row of the pair comes from an iteration that recorded it),
\* the run goes on with the next category of the file, or with the next file,
\* and it is never the copy failure that ends a run.
C5_CopyFailureSkipsPair ==
    \A i \in DOMAIN hist :
        hist[i].ev \in CopyFailed
        => /\ (\E k \in 1..Len(visibleRows) :
                   /\ visibleRows[k].sourcePath = hist[i].sourcePath
                   /\ visibleRows[k].categoryName = hist[i].categoryName)
              => \E j \in DOMAIN hist : SamePair(i, j) /\ hist[j].ev = "recorded"
           /\ (i = Len(hist) /\ run = hist[i].run)
              => /\ pc = "loop"
                 /\ IF IndexOf(hist[i].categoryName) < Len(mediaCategories)
                    THEN /\ mediaFilePath = {hist[i].sourcePath}
                         /\ categoryIndex = IndexOf(hist[i].categoryName) + 1
                    ELSE categoryIndex = 1
           /\ Ended(hist[i].run, "aborted")
              => \E j \in DOMAIN hist : j > i /\ hist[j].run = hist[i].run

\* The copy of a pair failed, no row was written for it, and the run went on
\* to record a later pair and reached its commit.
C5_Witness ==
    \E i, j \in DOMAIN hist :
        /\ i < j
        /\ hist[i].ev \in CopyFailed
        /\ hist[j].run = hist[i].run
        /\ hist[j].ev = "recorded"
        /\ ~SamePair(i, j)
        /\ Ended(hist[i].run, "done")
        /\ \A k \in 1..Len(visibleRows) :
               ~ /\ visibleRows[k].sourcePath = hist[i].sourcePath
                 /\ visibleRows[k].categoryName = hist[i].categoryName

\* ------------------------------------------------------------ C6
\* Every file the loop hands to CopyCommand was yielded by os.walk for the
\* same mediaSourcePath and joined to it, so it includes mediaSourcePath: the
\* AssertionError of CopyCommand is not raised from the loop.
WalkedPathIncludesRoot ==
    AtPair => CopyCommandAccepts(mediaSourcePath, currentFile)

\* ------------------------------------------------------------ C7
\* C7: while a run is at work, the database lookup finds every pair for which
\* an INSERT succeeded earlier, in this run or in any earlier run, also an
\* earlier run that did not reach its end.
C7_LookupFindsEveryRecordedPair ==
    pc = "loop" =>
        \A i \in DOMAIN hist :
            hist[i].ev = "recorded"
                => SQLFindQuery(visibleRows, hist[i].sourcePath, hist[i].categoryName)

\* ------------------------------------------------------------ C8
\* C8: no two rows of the database, committed or not, have the same
\* sourcePath and categoryName.
C8_PairUniqueInDatabase ==
    \A k, l \in 1..Len(visibleRows) :
        (/\ visibleRows[k].sourcePath = visibleRows[l].sourcePath
         /\ visibleRows[k].categoryName = visibleRows[l].categoryName) => k = l

\* One run met the same file twice (a source path listed twice, or two source
\* paths that overlap): it recorded the pair the first time and found it, not
\* yet committed, the second time.
C8_Witness ==
    \E i, j \in DOMAIN hist :
        /\ i < j
        /\ hist[i].run = hist[j].run
        /\ SamePair(i, j)
        /\ hist[i].ev = "recorded"
        /\ hist[j].ev = "found"
        /\ run = hist[i].run
        /\ \E k \in 1..Len(transaction) :
               /\ transaction[k].sourcePath = hist[i].sourcePath
               /\ transaction[k].categoryName = hist[i].categoryName

\* ------------------------------------------------------------ C9
\* The category's exclusion pattern, if any, does not match path.
NotExcluded(cat, path) == \A pat \in cat.exclusionRegex : ~regexSearch(pat, path)

\* C9: a category without extensions accepts every path its exclusion
\* pattern does not match.
C9_NoExtensionsMatchesAny ==
    (AtPair /\ category.extensions = <<>> /\ NotExcluded(category, currentFile))
        => belongs(category, currentFile, extensions)

\* ------------------------------------------------------------ C10
\* extension is a suffix of path, letter case apart.
IsSuffixIgnoringCase(extension, path) ==
    /\ Len(extension) <= Len(path)
    /\ \A k \in 1..Len(extension) :
           Lower(path[Len(path) - Len(extension) + k]) = Lower(extension[k])

\* p and q are the same path but for the letter case of the extension (what
\* follows the last ".").
DifferInExtensionCaseOnly(p, q) ==
    /\ Len(p) = Len(q)
    /\ \E d \in 1..Len(p) :
           /\ p[d] = "." /\ \A k \in (d + 1)..Len(p) : p[k] # "."
           /\ \A k \in 1..d : p[k] = q[k]
           /\ \A k \in (d + 1)..Len(p) : Lower(p[k]) = Lower(q[k])

\* C10, first part: with extensions configured, belongs is true exactly when
\* an extension is a suffix of the path, letter case apart, and the exclusion
\* pattern, if any, does not match.
C10_BelongsIffSuffix ==
    (AtPair /\ category.extensions # <<>>)
        => (belongs(category, currentFile, extensions)
              <=> /\ \E k \in 1..Len(category.extensions) :
                         IsSuffixIgnoringCase(category.extensions[k], currentFile)
                  /\ NotExcluded(category, currentFile))

\* C10, second part: two paths that differ in the letter case of the
\* extension only get the same answer.
C10_ExtensionCaseIgnored ==
    (AtPair /\ category.extensions # <<>>)
        => \A k \in 1..Len(listing) :
               DifferInExtensionCaseOnly(currentFile, listing[k])
                   => (belongs(category, currentFile, extensions)
                         <=> belongs(category, listing[k], extensions))

\* C10: both parts.
C10_BelongsContract == C10_BelongsIffSuffix /\ C10_ExtensionCaseIgnored

\* ------------------------------------------------------------ C11
\* root without its trailing separator.
withoutSeparator(root) ==
    IF root # <<>> /\ root[Len(root)] = "/" THEN SubSeq(root, 1, Len(root) - 1) ELSE root

\* What follows root and the separator in a path that begins with root.
relativeTo(root, path) == SubSeq(path, Len(withoutSeparator(root)) + 2, Len(path))

\* C11: the destination path is the destination root, one separator, and the
\* source path's part relative to the source root, whether or not either root
\* ends in a separator.
C11_DestinationKeepsRelativePath ==
    ToCopy =>
        copyDestination =
            withoutSeparator(category.destination) \o <<"/">>
                \o relativeTo(mediaSourcePath, currentFile)

\* ------------------------------------------------------------ C12
\* The category of that name.
CategoryNamed(name) == mediaCategories[IndexOf(name)]

\* The committed row of a pair, if any.
RowsOf(rows, sourcePath, categoryName) ==
    {k \in 1..Len(rows) : /\ rows[k].sourcePath = sourcePath
                          /\ rows[k].categoryName = categoryName}

\* C12: fan-out.  A copy is only ever run for a category that accepts the
\* file.  When a run has reached its end with every copy succeeding, each
\* file it met has a row for exactly the categories that accept it, each row
\* with a destination below its own category's destination root, where the
\* copy is: one row and one copy per accepting category, none for a category
\* that rejects the file (by its extensions or by its exclusion pattern).
C12_FanOut ==
    /\ \A i \in DOMAIN hist :
           hist[i].ev \in CopyAttempted
               => belongs(CategoryNamed(hist[i].categoryName), hist[i].sourcePath,
                          extensions)
    /\ \A i \in DOMAIN hist :
           (Ended(hist[i].run, "done") /\ NoCopyFailed(hist[i].run))
           => \A c \in 1..Len(mediaCategories) :
                  LET cat == mediaCategories[c]
                      rows == RowsOf(database, hist[i].sourcePath, cat.name)
                  IN  /\ belongs(cat, hist[i].sourcePath, extensions) <=> rows # {}
                      /\ \A k \in rows :
                             /\ MatchAt(cat.destination, database[k].destinationPath, 1)
                             /\ database[k].destinationPath \in DOMAIN fs
                             /\ \E j \in DOMAIN hist :
                                    /\ hist[j].ev = "recorded"
                                    /\ hist[j].sourcePath = hist[i].sourcePath
                                    /\ hist[j].categoryName = cat.name
                                    /\ hist[j].destinationPath = database[k].destinationPath

\* A run has ended with one file recorded for two categories, under two
\* destinations, and another file, which the second category's exclusion
\* pattern matches, recorded for the first category only.
C12_Witness ==
    \E i, j \in DOMAIN hist :
        /\ Ended(hist[i].run, "done") /\ hist[j].run = hist[i].run
        /\ Len(mediaCategories) = 2
        /\ hist[i].sourcePath # hist[j].sourcePath
        /\ \E k \in RowsOf(database, hist[i].sourcePath, mediaCategories[1].name) :
           \E l \in RowsOf(database, hist[i].sourcePath, mediaCategories[2].name) :
               database[k].destinationPath # database[l].destinationPath
        /\ RowsOf(database, hist[j].sourcePath, mediaCategories[1].name) # {}
        /\ RowsOf(database, hist[j].sourcePath, mediaCategories[2].name) = {}
        /\ hist[j].categoryName = mediaCategories[2].name
        /\ hist[j].ev = "rejected"
        /\ ~NotExcluded(mediaCategories[2], hist[j].sourcePath)

\* ------------------------------------------------------------ C13
\* C13: every file of the source tree keeps its data: no run writes to, or
\* removes, a file that was there at first.
C13_OriginalsUntouched ==
    \A k \in 1..Len(cfg.files) :
        /\ cfg.files[k] \in DOMAIN fs
        /\ fs[cfg.files[k]] = Original(cfg.files[k])

\* ------------------------------------------------------------ C14
\* C14: a run that a configuration error ends has processed no file and has
\* changed nothing: no file copied, no directory made, and the database
\* neither created nor changed.
C14_ConfigErrorChangesNothing ==
    pc = "config error"
        => /\ hist = <<>>
           /\ listing = cfg.files
           /\ \A k \in 1..Len(cfg.files) : fs[cfg.files[k]] = Original(cfg.files[k])
           /\ dirs = UNION {dirsOf(destinationFolder(cfg.files[k])) : k \in 1..Len(cfg.files)}
           /\ database = <<>> /\ transaction = <<>>
           /\ ~dbCreated

\* ------------------------------------------------------------ C15
\* rows is still there, row by row, at the head of later.
KeptIn(rows, later) ==
    /\ Len(later) >= Len(rows)
    /\ \A k \in 1..Len(rows) : later[k] = rows[k]

\* C15: the ledger only grows.  No step changes or removes a row of the
\* table: every committed row stays, with the same sourcePath, categoryName,
\* destinationPath and processedTime, and rows are only added after it; and
\* as long as a run lasts, the same holds of what its connection reads.
C15_LedgerAppendOnly ==
    [][ /\ KeptIn(database, database')
        /\ (pc = "loop" /\ pc' = "loop") => KeptIn(visibleRows, visibleRows') ]_vars

\* A row committed by one run is in the table, unchanged, after a later run
\* has committed a row of its own behind it.
C15_Witness ==
    \E k, l \in 1..Len(database) :
    \E i, j \in DOMAIN hist :
        /\ k < l
        /\ hist[i].run < hist[j].run
        /\ hist[i].ev = "recorded" /\ hist[j].ev = "recorded"
        /\ database[k].sourcePath = hist[i].sourcePath
        /\ database[k].categoryName = hist[i].categoryName
        /\ database[k].destinationPath = hist[i].destinationPath
        /\ database[l].sourcePath = hist[j].sourcePath
        /\ database[l].categoryName = hist[j].categoryName

\* ------------------------------------------------------------ C16
\* The sections of the configuration that are not the two global sections and
\* whose name is a reserved one.
CollidingSections ==
    {k \in 1..Len(cfg.sections) :
        /\ cfg.sections[k].name \notin {media_database, media_sources}
        /\ isReserved(cfg.sections[k].name)}

\* C16: a category whose name collides with a reserved section name makes rule
\* construction fail: every run under such a configuration ends with a
\* configuration error, never with the section accepted or passed over.
C16_ReservedNameFails ==
    CollidingSections # {} =>
        \A r \in 1..Len(outcome) : outcome[r] = "config error"

\* ------------------------------------------------------------ C17
\* The "recorded" events of a pair in the runs that reached their commit.
CommittedRecordings(sourcePath, categoryName) ==
    {i \in DOMAIN hist :
        /\ hist[i].ev = "recorded"
        /\ hist[i].sourcePath = sourcePath
        /\ hist[i].categoryName = categoryName
        /\ Ended(hist[i].run, "done")}

\* The first time run r meets the pair of event i.
FirstMeeting(r, i) ==
    {j \in DOMAIN hist :
        /\ hist[j].run = r /\ SamePair(i, j)
        /\ \A k \in 1..(j - 1) : ~(hist[k].run = r /\ SamePair(i, k))}

\* C17: a run that ends before its commit adds nothing to the table.  The
\* table holds, for each pair, exactly the rows recorded by runs that
\* committed; so a pair recorded by a run that ended early is not in the table
\* when the next run starts: the next run, when it meets the pair, does not find
\* it and copies it again, and if that run ends with every copy succeeding it
\* has copied every such pair.
C17_EarlyEndRecordsNothing ==
    /\ \A k \in 1..Len(database) :
           Cardinality(RowsOf(database, database[k].sourcePath, database[k].categoryName))
               = Cardinality(CommittedRecordings(database[k].sourcePath,
                                                 database[k].categoryName))
    /\ \A i \in DOMAIN hist :
           (hist[i].ev = "recorded" /\ Ended(hist[i].run, "aborted")) =>
               /\ Len(outcome) <= hist[i].run =>
                      RowsOf(database, hist[i].sourcePath, hist[i].categoryName) = {}
               /\ \A j \in FirstMeeting(hist[i].run + 1, i) :
                      hist[j].ev \in CopyAttempted
               /\ (Ended(hist[i].run + 1, "done") /\ NoCopyFailed(hist[i].run + 1)) =>
                      \E j \in DOMAIN hist :
                          /\ hist[j].run = hist[i].run + 1
                          /\ SamePair(i, j)
                          /\ hist[j].ev = "recorded"

\* A run recorded a pair and ended before its commit; the next run copied
\* and recorded the pair again.
C17_Witness ==
    \E i, j \in DOMAIN hist :
        /\ hist[i].ev = "recorded" /\ Ended(hist[i].run, "aborted")
        /\ hist[j].run = hist[i].run + 1
        /\ SamePair(i, j)
        /\ hist[j].ev = "recorded"
        /\ RowsOf(database, hist[i].sourcePath, hist[i].categoryName) = {}

\* ------------------------------------------------------------ C18
\* The "recorded" events that account for a row.
RecordingsOf(row) ==
    {i \in DOMAIN hist :
        /\ hist[i].ev = "recorded"
        /\ hist[i].sourcePath = row.sourcePath
        /\ hist[i].categoryName = row.categoryName
        /\ hist[i].destinationPath = row.destinationPath}

\* Every row comes from an iteration that copied: its category accepts its
\* path, and an iteration recorded it with its destinationPath.
RowsWereCopied ==
    \A k \in 1..Len(visibleRows) :
        /\ RecordingsOf(visibleRows[k]) # {}
        /\ belongs(CategoryNamed(visibleRows[k].categoryName),
                   visibleRows[k].sourcePath, extensions)

\* A step that adds a row adds one row, for the pair of the current iteration,
\* whose lookup returned false and whose category accepts the path, and it
\* leaves at the row's destinationPath the data of the source file.
RowAddedAfterCopy ==
    Len(visibleRows') > Len(visibleRows) =>
        /\ AtPair
        /\ ~found
        /\ belongs(category, currentFile, extensions)
        /\ visibleRows' = Append(visibleRows,
                                 [sourcePath |-> currentFile,
                                  categoryName |-> category.name,
                                  destinationPath |-> copyDestination,
                                  processedTime |-> clock])
        /\ copyDestination \in DOMAIN fs'
        /\ fs'[copyDestination] = fs[currentFile]
        /\ hist' = Append(hist, Event("recorded", copyDestination))

\* C18: recording is the last step of a pair.  A row is added only by an
\* iteration whose lookup returned false, whose category accepted the path and
\* whose copy to exactly the row's destinationPath succeeded; an iteration
\* whose copy failed or whose category rejected the path adds no row.
C18_RecordedAfterCopy == [](RowsWereCopied) /\ [][RowAddedAfterCopy]_vars

\* A run met a pair whose copy failed and a pair it copied: the table has a
\* row for the second, with the copy at its destinationPath, and none for the
\* first.
C18_Witness ==
    \E i, j \in DOMAIN hist :
        /\ hist[i].run = hist[j].run
        /\ hist[i].ev \in CopyFailed
        /\ hist[j].ev = "recorded"
        /\ RowsOf(visibleRows, hist[i].sourcePath, hist[i].categoryName) = {}
        /\ \E k \in RowsOf(visibleRows, hist[j].sourcePath, hist[j].categoryName) :
               /\ visibleRows[k].destinationPath = hist[j].destinationPath
               /\ visibleRows[k].destinationPath \in DOMAIN fs

\* ------------------------------------------------------------ C19
\* C19: within one source root and one category, two distinct files found
\* under the root are given distinct destination paths.
C19_DestinationsCollisionFree ==
    ~configurationError(cfg.sections) =>
    \A s \in 1..Len(mediaSourcePaths) :
    \A c \in 1..Len(mediaCategories) :
        LET underRoot == walk(mediaSourcePaths[s], listing)
        IN  \A a, b \in 1..Len(underRoot) :
                underRoot[a] # underRoot[b] =>
                    destinationPath(mediaSourcePaths[s], mediaCategories[c].destination, underRoot[a])
                        # destinationPath(mediaSourcePaths[s], mediaCategories[c].destination, underRoot[b])

\* ------------------------------------------------------------ C20
\* The pair has a committed row, and a run that committed copied the file
\* below the category's destination, where a file is.
Synced(sourcePath, cat) ==
    /\ RowsOf(database, sourcePath, cat.name) # {}
    /\ \E i \in DOMAIN hist :
           /\ hist[i].ev = "recorded"
           /\ Ended(hist[i].run, "done")
           /\ hist[i].sourcePath = sourcePath
           /\ hist[i].categoryName = cat.name
           /\ MatchAt(cat.destination, hist[i].destinationPath, 1)
           /\ hist[i].destinationPath \in DOMAIN fs

\* C20: completeness.  When a run has reached its end and none of its copies
\* failed, every file under every source root has, for every category that
\* accepts it, a committed row and a copy below the category's destination,
\* made by this run or by an earlier one; so has every pair the run met.
C20_Complete ==
    \A r \in 1..Len(outcome) :
        (Ended(r, "done") /\ NoCopyFailed(r)) =>
            /\ \A s \in 1..Len(mediaSourcePaths) :
               \A c \in 1..Len(mediaCategories) :
                   LET discovered == walk(mediaSourcePaths[s], cfg.files)
                   IN  \A f \in 1..Len(discovered) :
                           belongs(mediaCategories[c], discovered[f], extensions)
                               => Synced(discovered[f], mediaCategories[c])
            /\ \A i \in DOMAIN hist :
                   (/\ hist[i].run = r
                    /\ belongs(CategoryNamed(hist[i].categoryName),
                               hist[i].sourcePath, extensions))
                       => Synced(hist[i].sourcePath, CategoryNamed(hist[i].categoryName))

\* A run ended with every copy succeeding, having copied one pair itself and
\* found another, which an earlier run had copied, in the table.
C20_Witness ==
    \E i, j \in DOMAIN hist :
        /\ hist[i].run = hist[j].run
        /\ Ended(hist[i].run, "done") /\ NoCopyFailed(hist[i].run)
        /\ hist[i].ev = "recorded"
        /\ hist[j].ev = "found"
        /\ ~SamePair(i, j)
        /\ Synced(hist[i].sourcePath, CategoryNamed(hist[i].categoryName))
        /\ Synced(hist[j].sourcePath, CategoryNamed(hist[j].categoryName))

====
